---- MODULE Spec2Model ----
\* Model of downloadOneDriveFolder.py: OneDriveSearchDownloadApp.run builds a
\* OneDriveDownloader and runs search_and_download, which posts one search
\* query, scans the nested hits for the requested folder and walks the folder
\* tree with download_folder / download_file.  Local paths are sequences of
\* names relative to download_path; <<>> is download_path itself.
EXTENDS Integers, Sequences, FiniteSets, TLC

\* ---------------------------------------------------------------- bounds
MaxResponses == 2
MaxContainers == 2
MaxHits == 2
MaxRuns == 2

\* ------------------------------------------------------- invocation input
FolderName == "A"
WebUrl == "https://host/A"
None == "None"

\* os.path.join(self.download_path, folder_name): the parent_directory of the
\* top-level download_folder call
RootDir == <<FolderName>>

\* ------------------------------------------------------------ remote data
\* Search hits the remote may return: two exact matches (different items),
\* a hit matching by name only and a hit matching by web_url only.
HitM1 == [name |-> FolderName, web_url |-> WebUrl, id |-> "A", drive_id |-> "d1"]
HitM2 == [name |-> FolderName, web_url |-> WebUrl, id |-> "A2", drive_id |-> "d2"]
HitN == [name |-> FolderName, web_url |-> "https://host/other/A", id |-> "X", drive_id |-> "d1"]
HitU == [name |-> "Z", web_url |-> WebUrl, id |-> "Y", drive_id |-> "d2"]
HitUniverse == {HitM1, HitM2, HitN, HitU}

SeqsUpTo(S, n) == UNION {[1..k -> S] : k \in 0..n}

Perms(S) == {s \in [1..Cardinality(S) -> S] : \A i, j \in 1..Cardinality(S) : i # j => s[i] # s[j]}

\* A search result is result.value: a sequence of responses, each a sequence
\* of hit containers, each a sequence of hits.  The hits of a flat sequence h
\* are placed into the containers by a nondecreasing slot assignment p.
Slots == 1..(MaxResponses * MaxContainers)
SlotOf(r, c) == (r - 1) * MaxContainers + c
Placements(k) == {p \in [1..k -> Slots] : \A i \in 1..k : \A j \in 1..k : i <= j => p[i] <= p[j]}

RECURSIVE HitsAt(_, _, _)
HitsAt(h, p, s) ==
  IF h = <<>> THEN <<>>
  ELSE (IF Head(p) = s THEN <<Head(h)>> ELSE <<>>) \o HitsAt(Tail(h), Tail(p), s)

BuildResult(h, p) ==
  [r \in 1..MaxResponses |-> [c \in 1..MaxContainers |-> HitsAt(h, p, SlotOf(r, c))]]

SearchResults ==
  UNION {{BuildResult(h, p) : p \in Placements(Len(h))} : h \in SeqsUpTo(HitUniverse, MaxHits)}

\* Drive items: the child descriptors' name and folder / file facets.
FolderIds == {"A", "A2", "B"}
FileIds == {"f1", "f2"}
Item(id) == [id |-> id, name |-> id, folder |-> id \in FolderIds, file |-> id \in FileIds]
DriveOf(id) == IF id = "A2" THEN "d2" ELSE "d1"
FileByte(f) == IF f = "f1" THEN 1 ELSE 2

\* The remote folder trees: the children listing of every folder, in the
\* order the listing returns them.  "p" has neither facet (e.g. a package).
Trees ==
  {[A |-> a, A2 |-> <<>>, B |-> b] :
     a \in UNION {Perms(S) : S \in SUBSET {"f1", "B", "p"}},
     b \in {<<>>, <<"f2">>}}

RECURSIVE InSeq(_, _)
InSeq(x, s) == IF s = <<>> THEN FALSE ELSE Head(s) = x \/ InSeq(x, Tail(s))

\* the files some listing of the tree returns
RemoteFileIds(ch) == {f \in FileIds : \E d \in DOMAIN ch : InSeq(f, ch[d])}

ReachableTrees == {t \in Trees : ~InSeq("B", t.A) => t.B = <<>>}

\* ------------------------------------------------------------------ state
VARIABLES
  pc,              \* "init" | "search" | "list" | "items" | "get" | "open" | "write" |
                   \* "close" | "close_exc" (close awaited, exception in flight) | "done"
  outcome,         \* "none" | "normal" (run returned) | "error" (exception left run)
  lastError,       \* the exception that left download_folder / download_file or
                   \* the search or the constructor in this run, "none" if none
  searchResp,      \* remote: what search.query.post returns
  children,        \* remote: folder id -> children listing
  version,         \* remote: file id -> revision of its content
  searched,        \* line 65 returned in this run
  result,          \* result.value
  folder_item_id,  \* local of search_and_download
  drive_id,        \* local of search_and_download
  pending,         \* arguments of the download_folder call about to list
  stack,           \* active download_folder frames: [dir, items left to iterate]
  dirs,            \* local directories
  files,           \* local files: path -> bytes
  run,             \* number of the current invocation
  calls,           \* children / content calls, makedirs, opens and writes of this run
  written,         \* paths written in this run
  lastItem,        \* the child the loop of lines 40-46 handled last in this run
  lastOp,          \* how: "recurse" | "file" | "skip"
  file_call,       \* arguments of the active download_file call
  file_path,       \* local of the active download_file call
  content,         \* local of the active download_file call
  flushed,         \* how many bytes of content the open file has put on disk
  destExisted,     \* download_path/folder_name existed when this run started
  prevOk           \* an earlier run downloaded without any error

vars == <<pc, outcome, lastError, searchResp, children, version, searched, result,
          folder_item_id, drive_id, pending, stack, dirs, files, run, calls,
          written, lastItem, lastOp, file_call, file_path, content, flushed,
          destExisted, prevOk>>

remoteVars == <<searchResp, children, version>>
fsVars == <<dirs, files, written>>
fileVars == <<file_call, file_path, content, flushed>>

\* --------------------------------------------------------- pure functions
\* variant: the two comparisons joined by "or"
MatchesEither(hit, folder_name, web_url) == hit.name = folder_name \/ hit.web_url = web_url

\* line 75
Matches(hit, folder_name, web_url) == hit.name = folder_name /\ hit.web_url = web_url

\* variant: an already found match is kept
AssignMatchKeepFirst(cur, hit) ==
  IF Matches(hit, FolderName, WebUrl) /\ cur.folder_item_id = None
  THEN [folder_item_id |-> hit.id, drive_id |-> hit.drive_id]
  ELSE cur

\* lines 75-77: the body of the innermost loop
AssignMatch(cur, hit) ==
  IF Matches(hit, FolderName, WebUrl)
  THEN [folder_item_id |-> hit.id, drive_id |-> hit.drive_id]
  ELSE cur

\* line 73
RECURSIVE LoopHits(_, _)
LoopHits(hits, cur) ==
  IF hits = <<>> THEN cur ELSE LoopHits(Tail(hits), AssignMatch(cur, Head(hits)))

\* line 72
RECURSIVE LoopContainers(_, _)
LoopContainers(hits_containers, cur) ==
  IF hits_containers = <<>> THEN cur
  ELSE LoopContainers(Tail(hits_containers), LoopHits(Head(hits_containers), cur))

\* line 71
RECURSIVE LoopResponses(_, _)
LoopResponses(value, cur) ==
  IF value = <<>> THEN cur
  ELSE LoopResponses(Tail(value), LoopContainers(Head(value), cur))

\* lines 67-78
Locate(value) == LoopResponses(value, [folder_item_id |-> None, drive_id |-> None])

\* Python truthiness of an id: None and the empty string are false
Truthy(x) == x # None /\ x # ""

\* variant: the download is entered whatever the scan found
ShouldDownloadAlways(fid, did) == TRUE

\* line 80
ShouldDownload(fid, did) == Truthy(fid) /\ Truthy(did)

\* variant: "else" in place of "elif item.file"
BranchElse(item) == IF item.folder THEN "recurse" ELSE "file"

\* lines 41 and 45: which branch of the loop body takes the child
Branch(item) == IF item.folder THEN "recurse" ELSE IF item.file THEN "file" ELSE "skip"

\* os.path.join(parent_directory, name), lines 31 and 42
Join(directory, name) == Append(directory, name)

Parent(path) == SubSeq(path, 1, Len(path) - 1)
Prefixes(path) == {SubSeq(path, 1, k) : k \in 0..Len(path)}

\* os.makedirs(path, exist_ok=True), line 43: creates the missing ancestors
\* too; raises when the path or an ancestor is a file
MakeDirsRaises(fs, path) == \E q \in Prefixes(path) : q \in DOMAIN fs
\* variant: the directory is not created before the recursion
MakeDirsSkipped(ds, path) == ds

MakeDirs(ds, path) == ds \cup Prefixes(path)

\* aiofiles.open(file_path, 'wb'), line 32: needs the parent directory and a
\* path that is no directory
CanOpen(ds, path) == Parent(path) \in ds /\ path \notin ds

\* variant: mode 'ab', what the file holds is kept
OpenForAppend(fs, path) ==
  [q \in DOMAIN fs \cup {path} |-> IF q = path /\ path \notin DOMAIN fs THEN <<>> ELSE fs[q]]

\* aiofiles.open(file_path, 'wb'), line 32: the file is created or truncated
Truncate(fs, path) == [q \in DOMAIN fs \cup {path} |-> IF q = path THEN <<>> ELSE fs[q]]

\* f.write(bytes), line 33, on the file opened at line 32: the bytes follow
\* what the file holds since it was opened
WriteBytes(fs, path, bytes) == [fs EXCEPT ![path] = @ \o bytes]

\* the bytes of content from the first not yet on disk up to the k-th: what
\* the buffered writer hands to the disk at a write, a flush or the close
NextBytes(bytes, done, k) == SubSeq(bytes, done + 1, k)

\* the bytes content.get() returns for a file, line 30
Content(f, ver) == <<FileByte(f), ver[f]>>

\* children.get() of (drive, item) answers only for a folder of that drive
ValidFolder(drive, id, ch) == id \in DOMAIN ch /\ DriveOf(id) = drive

\* variant: the loop body guards each child and goes on with the next
PropagateSwallowed(stk) == stk

\* An exception raised in download_folder / download_file meets no handler in
\* lines 28-46: every active frame is left
Propagate(stk) == <<>>

\* lines 85-86: the handler prints and search_and_download returns normally
ExceptHandler(err) == "normal"

\* ---------------------------------------------------------------- initial
NoCall == [drive |-> None, id |-> None, dir |-> <<>>]
NoFile == [file_item_id |-> None, filename |-> None, directory_path |-> <<>>]

\* remote states that exercise the traversal: one hit, any tree
TraverseResults == {BuildResult(<<h>>, <<1>>) : h \in {HitM1, HitN}}

\* remote states that exercise the search: any result, empty folders
LocateTree == [A |-> <<>>, A2 |-> <<>>, B |-> <<>>]

Init ==
  /\ pc = "init"
  /\ outcome = "none"
  /\ lastError = "none"
  /\ \/ searchResp \in SearchResults /\ children = LocateTree
     \/ searchResp \in TraverseResults /\ children \in ReachableTrees
  /\ version = [f \in FileIds \cup {"p"} |-> 1]
  /\ searched = FALSE
  /\ result = <<>>
  /\ folder_item_id = None
  /\ drive_id = None
  /\ pending = NoCall
  /\ stack = <<>>
  /\ file_call = NoFile
  /\ file_path = <<>>
  /\ content = <<>>
  /\ flushed = 0
  /\ dirs \in {{<<>>}, {<<>>, RootDir}}
  /\ files = <<>>
  /\ run = 1
  /\ calls = 0
  /\ written = {}
  /\ lastItem = "none"
  /\ lastOp = "none"
  /\ destExisted = (RootDir \in dirs)
  /\ prevOk = FALSE

\* ---------------------------------------------------------------- actions
\* An exception err leaves the frames stk (lines 36-46) and reaches the
\* handler of search_and_download (lines 85-86).
Raise(err, stk) ==
  /\ lastError' = err
  /\ stack' = Propagate(stk)
  /\ IF Propagate(stk) = <<>>
     THEN pc' = "done" /\ outcome' = ExceptHandler(err)
     ELSE pc' = "items" /\ outcome' = outcome

\* run, lines 114-119, and __init__ / authenticate, lines 14-26
AuthenticateOk ==
  /\ pc = "init"
  /\ pc' = "search"
  /\ UNCHANGED <<outcome, lastError, remoteVars, searched, result, folder_item_id,
                 drive_id, pending, stack, fsVars, run, calls, lastItem, lastOp,
                 destExisted, prevOk,
                 fileVars>>

\* The credential or client constructor raises: no handler in run
AuthenticateRaises ==
  /\ pc = "init"
  /\ pc' = "done"
  /\ outcome' = "error"
  /\ lastError' = "auth"
  /\ UNCHANGED <<remoteVars, searched, result, folder_item_id, drive_id, pending,
                 stack, fsVars, run, calls, lastItem, lastOp, destExisted, prevOk,
                 fileVars>>

\* line 65 raises: caught at lines 85-86
SearchRaises ==
  /\ pc = "search"
  /\ pc' = "done"
  /\ lastError' = "search"
  /\ outcome' = ExceptHandler("search")
  /\ UNCHANGED <<remoteVars, searched, result, folder_item_id, drive_id, pending,
                 stack, fsVars, run, calls, lastItem, lastOp, destExisted, prevOk,
                 fileVars>>

\* lines 65-83: the search returns, the hits are scanned, and the download is
\* entered (up to its first await) or the no-match message is printed
SearchAndLocate ==
  /\ pc = "search"
  /\ searched' = TRUE
  /\ result' = searchResp
  /\ LET m == Locate(searchResp) IN
       /\ folder_item_id' = m.folder_item_id
       /\ drive_id' = m.drive_id
       /\ IF ShouldDownload(m.folder_item_id, m.drive_id)
          THEN /\ pc' = "list"
               /\ pending' = [drive |-> m.drive_id, id |-> m.folder_item_id, dir |-> RootDir]
               /\ outcome' = outcome
          ELSE /\ pc' = "done"
               /\ pending' = pending
               /\ outcome' = "normal"
  /\ UNCHANGED <<lastError, remoteVars, stack, fsVars, run, calls, lastItem, lastOp,
                 destExisted, prevOk,
                 fileVars>>

\* line 38 returns: the loop of line 40 starts over items.value
ListChildren ==
  /\ pc = "list"
  /\ ValidFolder(pending.drive, pending.id, children)
  /\ stack' = Append(stack, [dir |-> pending.dir, items |-> children[pending.id]])
  /\ pc' = "items"
  /\ calls' = calls + 1
  /\ UNCHANGED <<outcome, lastError, remoteVars, searched, result, folder_item_id,
                 drive_id, pending, fsVars, run, lastItem, lastOp, destExisted, prevOk,
                 fileVars>>

\* line 38 raises
ListChildrenRaises ==
  /\ pc = "list"
  /\ calls' = calls + 1
  /\ Raise("listing", stack)
  /\ UNCHANGED <<remoteVars, searched, result, folder_item_id, drive_id, pending,
                 fsVars, run, lastItem, lastOp, destExisted, prevOk,
                 fileVars>>

Top == stack[Len(stack)]
Below == SubSeq(stack, 1, Len(stack) - 1)
\* the frames once the loop has taken its next item
Taken == Append(Below, [dir |-> Top.dir, items |-> Tail(Top.items)])
HasItem == pc = "items" /\ stack # <<>> /\ Top.items # <<>>
NextItem == Item(Head(Top.items))

\* lines 41-44: a folder child
ProcessFolderItem ==
  /\ HasItem
  /\ Branch(NextItem) = "recurse"
  /\ lastItem' = NextItem.id
  /\ lastOp' = "recurse"
  /\ calls' = calls + 1
  /\ LET new_folder_path == Join(Top.dir, NextItem.name) IN
       IF MakeDirsRaises(files, new_folder_path)
       THEN /\ Raise("eexist", Taken)
            /\ UNCHANGED <<dirs, pending>>
       ELSE /\ dirs' = MakeDirs(dirs, new_folder_path)
            /\ pending' = [drive |-> drive_id, id |-> NextItem.id, dir |-> new_folder_path]
            /\ stack' = Taken
            /\ pc' = "list"
            /\ UNCHANGED <<outcome, lastError>>
  /\ UNCHANGED <<remoteVars, searched, result, folder_item_id, drive_id, files,
                 written, run, destExisted, prevOk,
                 fileVars>>

\* lines 45-46: a file child is taken and download_file is entered, up to
\* the await of content.get at line 30
TakeFileItem ==
  /\ HasItem
  /\ Branch(NextItem) = "file"
  /\ lastItem' = NextItem.id
  /\ lastOp' = "file"
  /\ file_call' = [file_item_id |-> NextItem.id, filename |-> NextItem.name,
                   directory_path |-> Top.dir]
  /\ stack' = Taken
  /\ pc' = "get"
  /\ UNCHANGED <<outcome, lastError, remoteVars, searched, result, folder_item_id,
                 drive_id, pending, fsVars, run, calls, file_path, content, flushed,
                 destExisted, prevOk>>

\* line 30 returns the content; line 31 joins the path
ContentGet ==
  /\ pc = "get"
  /\ calls' = calls + 1
  /\ content' = Content(file_call.file_item_id, version)
  /\ file_path' = Join(file_call.directory_path, file_call.filename)
  /\ flushed' = 0
  /\ pc' = "open"
  /\ UNCHANGED <<outcome, lastError, remoteVars, searched, result, folder_item_id,
                 drive_id, pending, stack, fsVars, run, lastItem, lastOp, file_call,
                 destExisted, prevOk>>

\* line 30 raises
ContentGetRaises ==
  /\ pc = "get"
  /\ calls' = calls + 1
  /\ Raise("content", stack)
  /\ UNCHANGED <<remoteVars, searched, result, folder_item_id, drive_id, pending,
                 fsVars, run, lastItem, lastOp, destExisted, prevOk, fileVars>>

\* line 32: the file is opened; the open raises when the local disk has no
\* parent directory or has a directory at the path
OpenFile ==
  /\ pc = "open"
  /\ calls' = calls + 1
  /\ IF CanOpen(dirs, file_path)
     THEN /\ files' = Truncate(files, file_path)
          /\ pc' = "write"
          /\ UNCHANGED <<outcome, lastError, stack>>
     ELSE /\ Raise("open", stack)
          /\ files' = files
  /\ UNCHANGED <<remoteVars, searched, result, folder_item_id, drive_id, pending,
                 dirs, written, run, lastItem, lastOp, destExisted, prevOk, fileVars>>

\* line 32 raises although the path can be opened (permissions, quota):
\* nothing is changed
OpenFileRaises ==
  /\ pc = "open"
  /\ CanOpen(dirs, file_path)
  /\ calls' = calls + 1
  /\ Raise("disk", stack)
  /\ UNCHANGED <<remoteVars, searched, result, folder_item_id, drive_id, pending,
                 fsVars, run, lastItem, lastOp, destExisted, prevOk, fileVars>>

\* line 33 returns: the writer has taken the content and put some leading
\* part of it on disk (none of a content that fits its buffer); the close of
\* the file is awaited next
WriteFile ==
  /\ pc = "write"
  /\ calls' = calls + 1
  /\ \E k \in flushed..Len(content) :
       /\ files' = WriteBytes(files, file_path, NextBytes(content, flushed, k))
       /\ flushed' = k
  /\ pc' = "close"
  /\ UNCHANGED <<outcome, lastError, remoteVars, searched, result, folder_item_id,
                 drive_id, pending, stack, dirs, written, run, lastItem, lastOp,
                 file_call, file_path, content, destExisted, prevOk>>

\* line 33 raises (disk full, size limit) with some leading part on disk: the
\* close is awaited while the exception leaves the "async with"
WriteFileRaises ==
  /\ pc = "write"
  /\ calls' = calls + 1
  /\ \E k \in flushed..Len(content) :
       /\ files' = WriteBytes(files, file_path, NextBytes(content, flushed, k))
       /\ flushed' = k
  /\ pc' = "close_exc"
  /\ UNCHANGED <<outcome, lastError, remoteVars, searched, result, folder_item_id,
                 drive_id, pending, stack, dirs, written, run, lastItem, lastOp,
                 file_call, file_path, content, destExisted, prevOk>>

\* the close on leaving the "async with" returns: the rest of the content is
\* on disk; line 34 prints and download_file returns to the loop of line 40
CloseFile ==
  /\ pc = "close"
  /\ files' = WriteBytes(files, file_path, NextBytes(content, flushed, Len(content)))
  /\ flushed' = Len(content)
  /\ written' = written \cup {file_path}
  /\ pc' = "items"
  /\ UNCHANGED <<outcome, lastError, remoteVars, searched, result, folder_item_id,
                 drive_id, pending, stack, dirs, run, calls, lastItem, lastOp,
                 file_call, file_path, content, destExisted, prevOk>>

\* the close raises after line 33 returned: some leading part is on disk
CloseFileRaises ==
  /\ pc = "close"
  /\ \E k \in flushed..Len(content) :
       /\ files' = WriteBytes(files, file_path, NextBytes(content, flushed, k))
       /\ flushed' = k
  /\ Raise("write", stack)
  /\ UNCHANGED <<remoteVars, searched, result, folder_item_id, drive_id, pending,
                 dirs, written, run, calls, lastItem, lastOp, file_call, file_path,
                 content, destExisted, prevOk>>

\* the close awaited with the exception of line 33 in flight ends; the
\* exception goes on to the handler
CloseAfterRaise ==
  /\ pc = "close_exc"
  /\ \E k \in flushed..Len(content) :
       /\ files' = WriteBytes(files, file_path, NextBytes(content, flushed, k))
       /\ flushed' = k
  /\ Raise("write", stack)
  /\ UNCHANGED <<remoteVars, searched, result, folder_item_id, drive_id, pending,
                 dirs, written, run, calls, lastItem, lastOp, file_call, file_path,
                 content, destExisted, prevOk>>

\* lines 41 and 45 both false: the loop goes on to the next child
SkipItem ==
  /\ HasItem
  /\ Branch(NextItem) = "skip"
  /\ lastItem' = NextItem.id
  /\ lastOp' = "skip"
  /\ stack' = Taken
  /\ UNCHANGED <<pc, outcome, lastError, remoteVars, searched, result, folder_item_id,
                 drive_id, pending, fsVars, run, calls, destExisted, prevOk,
                 fileVars>>

\* the loop of line 40 is exhausted: download_folder returns to line 44 or 81
ReturnFromFolder ==
  /\ pc = "items"
  /\ stack # <<>>
  /\ Top.items = <<>>
  /\ stack' = Below
  /\ IF Below = <<>>
     THEN pc' = "done" /\ outcome' = "normal"
     ELSE pc' = "items" /\ outcome' = outcome
  /\ UNCHANGED <<lastError, remoteVars, searched, result, folder_item_id, drive_id,
                 pending, fsVars, run, calls, lastItem, lastOp, destExisted, prevOk,
                 fileVars>>

\* The program is invoked again with the same arguments; the local disk is as
\* the last run left it and remote file contents may have changed.
Rerun ==
  /\ pc = "done"
  /\ run < MaxRuns
  /\ run' = run + 1
  /\ pc' = "init"
  /\ outcome' = "none"
  /\ lastError' = "none"
  /\ searched' = FALSE
  /\ result' = <<>>
  /\ folder_item_id' = None
  /\ drive_id' = None
  /\ pending' = NoCall
  /\ stack' = <<>>
  /\ file_call' = NoFile
  /\ file_path' = <<>>
  /\ content' = <<>>
  /\ flushed' = 0
  /\ calls' = 0
  /\ written' = {}
  /\ lastItem' = "none"
  /\ lastOp' = "none"
  /\ destExisted' = (RootDir \in dirs)
  /\ prevOk' = (prevOk \/ (outcome = "normal" /\ lastError = "none" /\ calls > 0))
  /\ \E S \in SUBSET RemoteFileIds(children) :
       version' = [f \in DOMAIN version |-> IF f \in S THEN version[f] + 1 ELSE version[f]]
  /\ UNCHANGED <<searchResp, children, dirs, files>>

Next ==
  \/ AuthenticateOk
  \/ AuthenticateRaises
  \/ SearchRaises
  \/ SearchAndLocate
  \/ ListChildren
  \/ ListChildrenRaises
  \/ ProcessFolderItem
  \/ TakeFileItem
  \/ ContentGet
  \/ ContentGetRaises
  \/ OpenFile
  \/ OpenFileRaises
  \/ WriteFile
  \/ WriteFileRaises
  \/ CloseFile
  \/ CloseFileRaises
  \/ CloseAfterRaise
  \/ SkipItem
  \/ ReturnFromFolder
  \/ Rerun

Spec == Init /\ [][Next]_vars

\* ------------------------------------------------- vocabulary of the claims
\* the hits of a search result in iteration order
RECURSIVE Concat(_)
Concat(ss) == IF ss = <<>> THEN <<>> ELSE Head(ss) \o Concat(Tail(ss))

RECURSIVE FlatHits(_)
FlatHits(value) == IF value = <<>> THEN <<>> ELSE Concat(Head(value)) \o FlatHits(Tail(value))

ExactMatch(hit) == hit.name = FolderName /\ hit.web_url = WebUrl
ExactIdx(value) == LET flat == FlatHits(value) IN {i \in 1..Len(flat) : ExactMatch(flat[i])}
Min(S) == CHOOSE x \in S : \A y \in S : x <= y
Max(S) == CHOOSE x \in S : \A y \in S : x >= y

\* the (local path, file id) pairs of the remote files below folder id
RECURSIVE RemoteFiles(_, _, _)
RemoteFiles(id, dir, ch) ==
  IF id \notin DOMAIN ch THEN {}
  ELSE UNION {LET c == Item(ch[id][i]) IN
                IF c.folder THEN RemoteFiles(c.id, Append(dir, c.name), ch)
                ELSE IF c.file THEN {<<Append(dir, c.name), c.id>>}
                ELSE {}
              : i \in 1..Len(ch[id])}

Mirrored(pair) == pair[1] \in DOMAIN files /\ files[pair[1]] = <<FileByte(pair[2]), version[pair[2]]>>

\* errors the environment injects (remote calls, disk), as opposed to those
\* the program's own sequence of file-system operations causes
Injected == {"auth", "search", "listing", "content", "disk", "write"}
Downloading == calls > 0 \/ written # {} \/ pc \in {"list", "items", "get", "open", "write", "close", "close_exc"}

\* ------------------------------------------------------------------ claims
\* C1: when every remote call succeeds and download_path/folder_name did not
\* exist before the run, the run ends with every remote file of the matched
\* subtree present at its mirrored local path with its remote content.
C1_AllFilesMirrored ==
  (pc = "done" /\ searched /\ calls > 0 /\ ~destExisted /\ lastError \notin Injected)
    => \A pair \in RemoteFiles(folder_item_id, RootDir, children) : Mirrored(pair)

\* C2: when the matched folder's listing is empty, the download creates the
\* local root directory and writes no file.
C2_EmptyFolderCreatesRoot ==
  (pc = "done" /\ calls > 0 /\ lastError = "none"
     /\ folder_item_id \in DOMAIN children /\ children[folder_item_id] = <<>>)
    => RootDir \in dirs /\ written = {}

\* C3: when the search result holds exactly one hit whose name and web_url
\* both equal the requested values, the download is started with that hit's
\* drive id and item id, wherever the hit sits in the result.
C3_SingleMatchSelected ==
  (searched /\ Cardinality(ExactIdx(result)) = 1)
    => LET h == FlatHits(result)[Min(ExactIdx(result))] IN
         /\ folder_item_id = h.id
         /\ drive_id = h.drive_id
         /\ calls = 0 => /\ pc = "list"
                         /\ pending = [drive |-> h.drive_id, id |-> h.id, dir |-> RootDir]

C3_Witness ==
  /\ searched
  /\ pc = "list"
  /\ calls = 0
  /\ Len(FlatHits(result)) = 2
  /\ ExactIdx(result) = {1}
  /\ result[1][1] = <<HitM2>>
  /\ result[2][1] = <<HitN>>
  /\ pending.id = "A2"

\* C4 as stated: with several exact matches the first in iteration order is
\* the one selected.
C4_FirstMatchWins ==
  (searched /\ ExactIdx(result) # {})
    => LET h == FlatHits(result)[Min(ExactIdx(result))] IN
         folder_item_id = h.id /\ drive_id = h.drive_id

\* C4 amended: with several exact matches the last in iteration order is the
\* one selected; every later exact match replaces the earlier one.
C4_LastMatchWins ==
  (searched /\ ExactIdx(result) # {})
    => LET h == FlatHits(result)[Max(ExactIdx(result))] IN
         /\ folder_item_id = h.id
         /\ drive_id = h.drive_id
         /\ calls = 0 => pending = [drive |-> h.drive_id, id |-> h.id, dir |-> RootDir]

C4_Witness ==
  /\ searched
  /\ pc = "list"
  /\ ExactIdx(result) = {1, 2}
  /\ FlatHits(result) = <<HitM1, HitM2>>
  /\ folder_item_id = "A2"
  /\ drive_id = "d2"

\* C5: a children listing, a content retrieval, a directory creation or a
\* file write happens only after a search that returned an exact match; when
\* the search raises or returns no exact match nothing is downloaded and the
\* run finishes normally.
C5_DownloadOnlyAfterMatch ==
  /\ Downloading => searched /\ ExactIdx(result) # {}
  /\ (pc = "done" /\ lastError = "search")
       => ~searched /\ calls = 0 /\ written = {} /\ outcome = "normal"
  /\ (pc = "done" /\ searched /\ ExactIdx(result) = {})
       => calls = 0 /\ written = {} /\ outcome = "normal" /\ lastError = "none"

C5_Witness ==
  /\ pc = "done"
  /\ searched
  /\ FlatHits(result) = <<HitN, HitU>>
  /\ calls = 0
  /\ outcome = "normal"

\* C6: a failed listing, content retrieval or file write is not caught by the
\* program: it leaves search_and_download and run, and the process ends as an
\* error, not as a normal completion.
C6_FailurePropagates ==
  (pc = "done" /\ lastError \in {"listing", "content", "open", "disk", "write"})
    => outcome = "error"

\* C7: when a listing or content call fails, the step that fails changes no
\* local file or directory, and afterwards the run makes no further call,
\* directory creation or file write.
C7_NoRollbackNoContinue ==
  [][/\ (lastError = "none" /\ lastError' \in {"listing", "content"})
          => files' = files /\ dirs' = dirs
     /\ (lastError \in {"listing", "content"} /\ run' = run)
          => calls' = calls /\ files' = files /\ dirs' = dirs]_vars

C7_Witness ==
  /\ pc = "done"
  /\ lastError = "listing"
  /\ pending.id = "B"
  /\ children["A"] = <<"f1", "B", "p">>
  /\ <<"A", "f1">> \in written
  /\ files[<<"A", "f1">>] = <<1, version["f1"]>>

\* C8: a run against a destination populated by an earlier successful run
\* does not fail on the existing directories, and leaves every local file
\* with the remote content as of this run.
C8_RerunOverwrites ==
  (run > 1 /\ prevOk /\ pc = "done" /\ lastError \notin Injected)
    => /\ lastError = "none"
       /\ outcome = "normal"
       /\ \A pair \in RemoteFiles(folder_item_id, RootDir, children) : Mirrored(pair)

C8_Witness ==
  /\ run = 2
  /\ prevOk
  /\ pc = "done"
  /\ lastError = "none"
  /\ destExisted
  /\ children["A"] = <<"B", "f1">>
  /\ version["f2"] = 2
  /\ version["f1"] = 1
  /\ written = {<<"A", "B", "f2">>, <<"A", "f1">>}
  /\ files[<<"A", "B", "f2">>] = <<2, 2>>
  /\ files[<<"A", "f1">>] = <<1, 1>>

\* C9: for every folder child, its local directory exists before its children
\* are listed and before any file of its subtree is written.
C9_DirBeforeListing ==
  /\ (pc = "list" /\ pending.dir # RootDir) => pending.dir \in dirs
  /\ \A i \in 2..Len(stack) : stack[i].dir \in dirs
  /\ \A path \in written : Len(path) > 2 => Parent(path) \in dirs
  /\ (pc \in {"write", "close", "close_exc"} /\ Len(file_path) > 2)
       => Parent(file_path) \in dirs

C9_Witness ==
  /\ run = 1
  /\ ~destExisted
  /\ pc = "list"
  /\ pending.dir = <<"A", "B">>
  /\ written = {}

\* C10 as stated: a folder child is recursed into and every other child is
\* retrieved and written.
C10_FolderElseFile ==
  lastItem # "none"
    => lastOp = (IF Item(lastItem).folder THEN "recurse" ELSE "file")

\* C10 amended: a folder child is recursed into; a child that is no folder
\* and has the file facet is retrieved and written; a child with neither
\* facet is skipped, nothing is retrieved or written for it.
C10_ThreeBranches ==
  lastItem # "none"
    => /\ lastOp = (IF Item(lastItem).folder THEN "recurse"
                    ELSE IF Item(lastItem).file THEN "file" ELSE "skip")
       /\ (lastOp = "file" /\ pc = "get") => file_call.file_item_id = lastItem
       /\ (lastOp = "file" /\ pc \in {"open", "write", "close", "close_exc"})
            => content = <<FileByte(lastItem), version[lastItem]>>
       /\ (lastOp = "file" /\ lastError = "none" /\ pc \notin {"get", "open", "write", "close", "close_exc"})
            => \E path \in written :
                 /\ path[Len(path)] = Item(lastItem).name
                 /\ files[path] = <<FileByte(lastItem), version[lastItem]>>
       /\ lastOp = "skip" => \A path \in written : path[Len(path)] # Item(lastItem).name

C10_Witness ==
  /\ lastItem = "p"
  /\ lastOp = "skip"
  /\ pc = "items"
  /\ children["A"] = <<"f1", "p", "B">>
  /\ written = {<<"A", "f1">>}

====
